---- MODULE Spec2Model ----
(***************************************************************************)
(* The realtime connection manager of scout-clone: WebSocketService in     *)
(* src/scout-clone/src/services/websocket.ts.  One service instance, the   *)
(* browser transports it creates, its reconnect and heartbeat timers, its  *)
(* outbound queue and its subscriber registry.  Every handler runs to      *)
(* completion on the single event loop, so each handler is one action.     *)
(***************************************************************************)
EXTENDS Integers, Sequences, FiniteSets, Bags, TLC

\* ---------------------------------------------------------------- bounds
MaxSockets == 2        \* transports that exist at the same time
MaxMsgs == 2           \* send() calls (each carries a fresh message id)
MaxListeners == 2      \* registrations held by the subscriber registry

\* ------------------------------------------------------ program constants
maxReconnectAttempts == 5
reconnectDelay == 1000

UrlArgs == {"undefined", "malformed"}
\* The event names subscribers register on: the three the service emits
\* itself ('connected' and 'error' are also frame types of the switch in
\* handleMessage), the frame type handleMessage ignores, and a frame type
\* the switch does not list.
Events == {"connected", "disconnected", "error", "pong", "unknown"}
Callbacks == {"cbSend", "cbThrow", "cbPlain"}

\* The components that call the useWebSocket hook.
Hooks == {"ChatInterface", "ConnectionStatus"}

\* The callbacks a hook instance registers: () => setIsConnected(value).
setIsConnected(h, value) ==
    IF h = "ChatInterface"
    THEN (IF value THEN "ChatInterface.setIsConnected(true)"
          ELSE "ChatInterface.setIsConnected(false)")
    ELSE (IF value THEN "ConnectionStatus.setIsConnected(true)"
          ELSE "ConnectionStatus.setIsConnected(false)")

\* The closure that subscribe(event, callback) of the hook instance of h
\* registers: (data) => { setLastMessage(...); callback(data) }.
wrapper(h, cb) ==
    IF h = "ChatInterface"
    THEN (IF cb = "cbSend" THEN "ChatInterface.subscribe(cbSend)"
          ELSE IF cb = "cbThrow" THEN "ChatInterface.subscribe(cbThrow)"
          ELSE "ChatInterface.subscribe(cbPlain)")
    ELSE (IF cb = "cbSend" THEN "ConnectionStatus.subscribe(cbSend)"
          ELSE IF cb = "cbThrow" THEN "ConnectionStatus.subscribe(cbThrow)"
          ELSE "ConnectionStatus.subscribe(cbPlain)")

\* The data an emission carries: "info" for the objects the service builds
\* itself, d1 and d2 for the data of inbound frames.
Data == {"info", "d1", "d2"}

\* The text of an inbound frame: <<"object", type, data>> for the JSON text
\* of an object with these members (type "undefined": without a type),
\* "null" for the JSON text null, "garbage" for a text that is not JSON.
Frames == {<<"garbage", "undefined", "undefined">>,
           <<"null", "undefined", "undefined">>}
              \cup ({"object"} \X (Events \cup {"undefined"})
                               \X (Data \ {"info"}))

VARIABLES
    socket,             \* this.socket: "null", or the readyState of the
                        \* transport it references
    orphans,            \* the transports the service created, no longer
                        \* references and that have not signalled closure
    listeners,          \* this.listeners: event -> callbacks in insertion order
    reconnectAttempts,  \* this.reconnectAttempts
    reconnectTimeout,   \* this.reconnectTimeout: "null", "live" or "fired"
    pendingTimeouts,    \* reconnect timers the event loop still has to fire
    pingInterval,       \* this.pingInterval is non-null
    liveIntervals,      \* heartbeat intervals the event loop still runs
    messageQueue,       \* this.messageQueue
    isConnectedFlag,    \* the isConnected state of each hook instance
    lastMessage,        \* the lastMessage state of each hook instance:
                        \* <<>> for null, or <<event, data>>
    listenersRef,       \* listenersRef.current of each hook instance: the
                        \* <<event, callback>> its unsubscribe functions remove
    rendered,           \* the components that rendered and whose effect has
                        \* not run yet
    mounted,            \* the components whose effect has run
    nextMsg,            \* id the next send() call carries
    pc,                 \* "ready", or "draining": stuck in the onopen loop
    delay,              \* delay of the pending reconnect timer, 0 without one
    emitted,            \* events emitted by the last operation
    delivered,          \* <<event, callback, data>> invocations of the last
                        \* operation
    steps,              \* the steps of the open handler the last operation took
    written,            \* ids of the frames the last operation wrote
    raised,             \* the last operation threw to its caller
    scheduled,          \* the last operation called scheduleReconnect
    created,            \* the last operation constructed a transport
    target,             \* the address it constructed the transport with
    endpoint,           \* the address of the last transport that an explicit
                        \* connect() constructed
    drainFrom,          \* the queue as the last operation's drain loop found it
    lastOp,             \* the last operation: name, argument, transport
    sinceDisconnect,    \* disconnect() was called, no explicit connect() since
    retryRun            \* timer-made attempts of a run of failures, or -1

vars == <<socket, orphans, listeners, reconnectAttempts, reconnectTimeout,
          pendingTimeouts, pingInterval, liveIntervals, messageQueue,
          isConnectedFlag, lastMessage, listenersRef, rendered, mounted,
          nextMsg, pc, delay, emitted, delivered, steps, written, raised,
          scheduled, created, target, endpoint, drainFrom, lastOp,
          sinceDisconnect, retryRun>>

\* A transport that this.socket no longer references.  superseded: it was
\* closed by a disconnect() that connect() followed immediately.
Orphan(rs, sup) == [readyState |-> rs, superseded |-> sup]

OrphanKinds == {Orphan(rs, FALSE) : rs \in {"CONNECTING", "OPEN", "CLOSING"}}
                   \cup {Orphan("CLOSING", TRUE)}

One(o) == SetToBag({o})

\* The number of live transports: connecting or open.
Live(st) ==
    (IF st.socket \in {"CONNECTING", "OPEN"} THEN 1 ELSE 0)
        + CopiesIn(Orphan("CONNECTING", FALSE), st.orphans)
        + CopiesIn(Orphan("OPEN", FALSE), st.orphans)

\* The number of transports that can still deliver an event.
Busy(st) ==
    (IF st.socket \in {"CONNECTING", "OPEN", "CLOSING"} THEN 1 ELSE 0)
        + BagCardinality(st.orphans)

\* The service and its environment as one value, so that the calls a handler
\* makes compose in program order.
Cur ==
    [socket |-> socket, orphans |-> orphans, listeners |-> listeners,
     reconnectAttempts |-> reconnectAttempts,
     reconnectTimeout |-> reconnectTimeout,
     pendingTimeouts |-> pendingTimeouts, pingInterval |-> pingInterval,
     liveIntervals |-> liveIntervals, messageQueue |-> messageQueue,
     isConnectedFlag |-> isConnectedFlag, lastMessage |-> lastMessage,
     listenersRef |-> listenersRef,
     nextMsg |-> nextMsg, pc |-> pc, delay |-> delay,
     emitted |-> emitted, delivered |-> delivered, steps |-> steps,
     written |-> written,
     raised |-> raised, scheduled |-> scheduled, created |-> created,
     target |-> target,
     drainFrom |-> drainFrom]

\* The state an operation starts from: the observations of the previous
\* operation are forgotten.
Begin ==
    [Cur EXCEPT !.emitted = <<>>, !.delivered = <<>>, !.steps = <<>>,
                !.written = <<>>,
                !.raised = FALSE, !.scheduled = FALSE, !.created = FALSE,
                !.target = "none",
                !.drainFrom = <<>>]

Commit(st) ==
    /\ socket' = st.socket
    /\ orphans' = st.orphans
    /\ listeners' = st.listeners
    /\ reconnectAttempts' = st.reconnectAttempts
    /\ reconnectTimeout' = st.reconnectTimeout
    /\ pendingTimeouts' = st.pendingTimeouts
    /\ pingInterval' = st.pingInterval
    /\ liveIntervals' = st.liveIntervals
    /\ messageQueue' = st.messageQueue
    /\ isConnectedFlag' = st.isConnectedFlag
    /\ lastMessage' = st.lastMessage
    /\ listenersRef' = st.listenersRef
    /\ nextMsg' = st.nextMsg
    /\ pc' = st.pc
    /\ delay' = st.delay
    /\ emitted' = st.emitted
    /\ delivered' = st.delivered
    /\ steps' = st.steps
    /\ written' = st.written
    /\ raised' = st.raised
    /\ scheduled' = st.scheduled
    /\ created' = st.created
    /\ target' = st.target
    /\ drainFrom' = st.drainFrom

\* sock: "current" for the transport of this.socket, "orphan" for another
\* one, "none"; superseded: the mark of that orphan.
Op(name, arg, sock, sup) ==
    [name |-> name, arg |-> arg, sock |-> sock, superseded |-> sup]

\* ------------------------------------------------------------- the service

\* isConnected(): this.socket?.readyState === WebSocket.OPEN
isConnected(st) == st.socket = "OPEN"

\* send() as it would be if a failed write were dropped instead of queued.
sendDropsFailedWrite(st, msg) ==
    IF ~isConnected(st)
    THEN [st EXCEPT !.messageQueue = Append(@, msg)]
    ELSE IF msg.ok
         THEN [st EXCEPT !.written = Append(@, msg.id)]
         ELSE st

\* send(event, data).  msg.ok tells whether JSON.stringify accepts the payload;
\* a payload it rejects makes the write throw inside the try block.
send(st, msg) ==
    IF ~isConnected(st)
    THEN [st EXCEPT !.messageQueue = Append(@, msg)]
    ELSE IF msg.ok
         THEN [st EXCEPT !.written = Append(@, msg.id)]
         ELSE [st EXCEPT !.messageQueue = Append(@, msg)]

\* One subscriber callback.  cbSend calls wsService.send with a fresh message
\* (as long as the behaviour has message ids left); cbThrow throws; cbPlain
\* returns without touching the service; the callbacks of a hook instance
\* set its isConnected state; the closure that the subscribe function of a
\* hook instance registered sets its lastMessage state and calls the
\* callback it wraps.
callback(st, event, cb, data) ==
    LET wrapped == \E h \in Hooks, c \in Callbacks : cb = wrapper(h, c)
        owner == CHOOSE h \in Hooks :
                     \E c \in Callbacks : cb = wrapper(h, c)
        fn == IF wrapped
              THEN CHOOSE c \in Callbacks : cb = wrapper(owner, c)
              ELSE cb
        set == IF wrapped
               THEN [st EXCEPT !.lastMessage[owner] = <<event, data>>]
               ELSE st
        d == [set EXCEPT !.delivered = Append(@, <<event, fn, data>>)]
    IN  IF fn = "cbSend"
        THEN IF d.nextMsg <= MaxMsgs
             THEN send([d EXCEPT !.nextMsg = @ + 1],
                       [id |-> d.nextMsg, ok |-> TRUE])
             ELSE d
        ELSE IF fn = "cbThrow" THEN [d EXCEPT !.raised = TRUE]
        ELSE IF \E h \in Hooks, v \in BOOLEAN : fn = setIsConnected(h, v)
        THEN LET h == CHOOSE h \in Hooks :
                          \E v \in BOOLEAN : fn = setIsConnected(h, v)
             IN  [d EXCEPT !.isConnectedFlag[h] = (fn = setIsConnected(h, TRUE))]
        ELSE d

\* forEach as it would be without the try/catch around each callback: the
\* first callback that throws ends the iteration and the exception leaves
\* emit.
RECURSIVE forEachNoCatch(_, _, _, _)
forEachNoCatch(st, event, cbs, data) ==
    IF cbs = <<>> THEN st
    ELSE LET called == callback(st, event, Head(cbs), data)
         IN  IF called.raised THEN called
             ELSE forEachNoCatch(called, event, Tail(cbs), data)

\* The iteration of emit over the callbacks of one event, in insertion
\* order; what a callback throws is caught and logged.
RECURSIVE forEach(_, _, _, _)
forEach(st, event, cbs, data) ==
    IF cbs = <<>> THEN st
    ELSE LET called == callback(st, event, Head(cbs), data)
         IN  forEach([called EXCEPT !.raised = FALSE], event, Tail(cbs), data)

\* emit(event, data).  An event name nobody can have registered (the type of
\* a frame without one) has no callbacks.
emit(st, event, data) ==
    LET logged == [st EXCEPT !.emitted = Append(@, event),
                             !.steps = Append(@, "emit")]
    IN  IF event \in Events
        THEN forEach(logged, event, st.listeners[event], data)
        ELSE logged

stopPingInterval(st) ==
    IF st.pingInterval
    THEN [st EXCEPT !.pingInterval = FALSE, !.liveIntervals = @ - 1]
    ELSE st

\* startPingInterval() as it would be without the stopPingInterval() call
\* at its start.
startPingIntervalNoStop(st) ==
    [st EXCEPT !.pingInterval = TRUE,
               !.liveIntervals = @ + 1,
               !.steps = Append(@, "startPingInterval")]

startPingInterval(st) ==
    [stopPingInterval(st) EXCEPT !.pingInterval = TRUE,
                                 !.liveIntervals = @ + 1,
                                 !.steps = Append(@, "startPingInterval")]

\* The interval callback as it would be without the isConnected() test.
pingTickUnguarded(st) == send(st, [id |-> 0, ok |-> TRUE])

\* The callback of the heartbeat interval: a 'ping' frame (id 0) is sent when
\* isConnected().
pingTick(st) ==
    IF isConnected(st) THEN send(st, [id |-> 0, ok |-> TRUE]) ELSE st

\* Math.pow(2, n)
RECURSIVE pow2(_)
pow2(n) == IF n = 0 THEN 1 ELSE 2 * pow2(n - 1)

min(a, b) == IF a < b THEN a ELSE b

\* clearTimeout(this.reconnectTimeout): cancels the timer the handle names
\* unless it has fired already.
clearTimeout(st) ==
    IF st.reconnectTimeout = "live"
    THEN [st EXCEPT !.pendingTimeouts = @ - 1, !.delay = 0]
    ELSE st

\* scheduleReconnect() as it would be if the delay were computed from the
\* counter after the increment without the "- 1".
scheduleReconnectLateDelay(st) ==
    LET cleared == IF st.reconnectTimeout # "null" THEN clearTimeout(st)
                   ELSE st
        attempts == st.reconnectAttempts + 1
    IN  [cleared EXCEPT !.reconnectAttempts = attempts,
                        !.delay = reconnectDelay * pow2(min(attempts, 4)),
                        !.reconnectTimeout = "live",
                        !.pendingTimeouts = @ + 1,
                        !.scheduled = TRUE]

\* scheduleReconnect() as it would be without the clearTimeout() of the
\* timer that is still pending.
scheduleReconnectNoClear(st) ==
    LET attempts == st.reconnectAttempts + 1
    IN  [st EXCEPT !.reconnectAttempts = attempts,
                   !.delay = reconnectDelay * pow2(min(attempts - 1, 4)),
                   !.reconnectTimeout = "live",
                   !.pendingTimeouts = @ + 1,
                   !.scheduled = TRUE]

scheduleReconnect(st) ==
    LET cleared == IF st.reconnectTimeout # "null" THEN clearTimeout(st)
                   ELSE st
        attempts == st.reconnectAttempts + 1
    IN  [cleared EXCEPT !.reconnectAttempts = attempts,
                        !.delay = reconnectDelay * pow2(min(attempts - 1, 4)),
                        !.reconnectTimeout = "live",
                        !.pendingTimeouts = @ + 1,
                        !.scheduled = TRUE]

\* The loop of onopen that drains the queue.  The loop is deterministic, so
\* when it meets a queue it has already met it never ends: pc = "draining".
RECURSIVE drainLoop(_, _)
drainLoop(st, seen) ==
    IF st.messageQueue = <<>> THEN st
    ELSE IF st.messageQueue \in seen THEN [st EXCEPT !.pc = "draining"]
    ELSE drainLoop(send([st EXCEPT !.messageQueue = Tail(@)],
                        Head(st.messageQueue)),
                   seen \cup {st.messageQueue})

\* onopen as it would be if the heartbeat were started before the queue is
\* drained.
onopenPingBeforeDrain(st) ==
    LET reset == [st EXCEPT !.reconnectAttempts = 0,
                            !.steps = Append(@, "reset")]
        started == startPingInterval(emit(reset, "connected", "info"))
    IN  drainLoop([started EXCEPT !.steps = Append(@, "drain"),
                                  !.drainFrom = started.messageQueue], {})

\* The open handler: the drain loop reads the queue as the 'connected'
\* subscribers left it.
onopen(st) ==
    LET reset == [st EXCEPT !.reconnectAttempts = 0,
                            !.steps = Append(@, "reset")]
        connected == emit(reset, "connected", "info")
        drained == drainLoop([connected EXCEPT
                                 !.steps = Append(@, "drain"),
                                 !.drainFrom = connected.messageQueue], {})
    IN  IF drained.pc = "draining" THEN drained
        ELSE startPingInterval(drained)

\* onclose as it would be if the comparison were <= instead of <.
oncloseOneTooMany(st) ==
    LET stopped == stopPingInterval(emit(st, "disconnected", "info"))
    IN  IF stopped.reconnectAttempts <= maxReconnectAttempts
        THEN scheduleReconnect(stopped)
        ELSE stopped

\* onclose as it would be if it left the heartbeat running.
oncloseKeepsHeartbeat(st) ==
    LET emitted1 == emit(st, "disconnected", "info")
    IN  IF emitted1.reconnectAttempts < maxReconnectAttempts
        THEN scheduleReconnect(emitted1)
        ELSE emitted1

onclose(st) ==
    LET stopped == stopPingInterval(emit(st, "disconnected", "info"))
    IN  IF stopped.reconnectAttempts < maxReconnectAttempts
        THEN scheduleReconnect(stopped)
        ELSE stopped

onerror(st) == emit(st, "error", "info")

\* this.socket = new WebSocket(wsUrl): the transport this.socket referenced
\* keeps its handlers; unless it is closed it lives on as an orphan.
newWebSocket(st, wsUrl) ==
    [st EXCEPT !.orphans = IF st.socket \in {"CONNECTING", "OPEN", "CLOSING"}
                           THEN @ (+) One(Orphan(st.socket, FALSE))
                           ELSE @,
               !.socket = "CONNECTING",
               !.created = TRUE,
               !.target = wsUrl]

\* connect() as it would be without the "already connected" early return.
connectAlways(st, url) ==
    LET wsUrl == IF url = "undefined" THEN "default" ELSE url
    IN  IF wsUrl = "malformed" THEN emit(st, "error", "info")
        ELSE newWebSocket(st, wsUrl)

\* connect(url)
connect(st, url) ==
    LET wsUrl == IF url = "undefined" THEN "default" ELSE url
    IN  IF isConnected(st) THEN st
        ELSE IF wsUrl = "malformed" THEN emit(st, "error", "info")
        ELSE newWebSocket(st, wsUrl)

\* this.socket.close(); this.socket = null.  close() starts the closing
\* handshake of a transport that is connecting or open and leaves one that
\* is closing or closed as it is.
close(st) ==
    [st EXCEPT !.orphans = IF st.socket \in {"CONNECTING", "OPEN", "CLOSING"}
                           THEN @ (+) One(Orphan("CLOSING", FALSE))
                           ELSE @,
               !.socket = "null"]

\* disconnect() as it would be without the last statement, which empties the
\* queue.
disconnectKeepsQueue(st) ==
    LET cleared == IF st.reconnectTimeout # "null"
                   THEN [clearTimeout(st) EXCEPT !.reconnectTimeout = "null"]
                   ELSE st
        stopped == [stopPingInterval(cleared) EXCEPT
                       !.reconnectAttempts = maxReconnectAttempts]
    IN  IF stopped.socket # "null" THEN close(stopped) ELSE stopped

disconnect(st) ==
    LET cleared == IF st.reconnectTimeout # "null"
                   THEN [clearTimeout(st) EXCEPT !.reconnectTimeout = "null"]
                   ELSE st
        stopped == [stopPingInterval(cleared) EXCEPT
                       !.reconnectAttempts = maxReconnectAttempts]
        closed == IF stopped.socket # "null" THEN close(stopped) ELSE stopped
    IN  [closed EXCEPT !.messageQueue = <<>>]

Member(seq, x) == \E i \in 1..Len(seq) : seq[i] = x

Remove(seq, x) == SelectSeq(seq, LAMBDA y : y # x)

\* on(event, callback)
on(st, event, cb) ==
    IF Member(st.listeners[event], cb) THEN st
    ELSE [st EXCEPT !.listeners[event] = Append(@, cb)]

\* The function on() returns: this.listeners.get(event)?.delete(callback)
unsubscribe(st, event, cb) ==
    [st EXCEPT !.listeners[event] = Remove(@, cb)]

\* off() as it would be if it dropped the event's whole set also when a
\* callback is given.
offDropsEvent(st, event, cb) ==
    [st EXCEPT !.listeners[event] = <<>>]

\* off(event, callback?); cb = "undefined": called without a callback.
off(st, event, cb) ==
    IF cb = "undefined"
    THEN [st EXCEPT !.listeners[event] = <<>>]
    ELSE [st EXCEPT !.listeners[event] = Remove(@, cb)]

\* The effect of useWebSocket(url) for the component h; both components
\* call the hook without a url.
useEffect(st, h) ==
    LET connected == connect(st, "undefined")
        first == on(connected, "connected", setIsConnected(h, TRUE))
        second == on(first, "disconnected", setIsConnected(h, FALSE))
    IN  [second EXCEPT !.listenersRef[h] =
            << <<"connected", setIsConnected(h, TRUE)>>,
               <<"disconnected", setIsConnected(h, FALSE)>> >>]

\* subscribe(event, callback) of the hook instance of h
subscribe(st, h, event, cb) ==
    [on(st, event, wrapper(h, cb)) EXCEPT
        !.listenersRef[h] = Append(@, <<event, wrapper(h, cb)>>)]

\* listenersRef.current.forEach((unsub) => unsub()), from index i on
RECURSIVE unsubAll(_, _, _)
unsubAll(st, refs, i) ==
    IF i > Len(refs) THEN st
    ELSE unsubAll(unsubscribe(st, refs[i][1], refs[i][2]), refs, i + 1)

\* The cleanup of the effect, run when the component unmounts.
cleanup(st, h) == disconnect(unsubAll(st, st.listenersRef[h], 1))

\* JSON.parse(event.data): throws on a text that is not JSON.
JSONparse(frame) ==
    [thrown |-> frame[1] = "garbage", object |-> frame[1] = "object",
     type |-> frame[2], data |-> frame[3]]

\* handleMessage as it would be without the case for 'pong'.
handleMessageForwardsPong(st, message) ==
    IF ~message.object THEN [st EXCEPT !.raised = TRUE]
    ELSE emit(st, message.type, message.data)

\* handleMessage(message): destructuring null throws; 'pong' is ignored;
\* every other type, listed in the switch or not, is emitted under its name.
handleMessage(st, message) ==
    IF ~message.object THEN [st EXCEPT !.raised = TRUE]
    ELSE IF message.type = "pong" THEN st
    ELSE emit(st, message.type, message.data)

\* onmessage as it would be without its try/catch.
onmessageNoCatch(st, frame) ==
    LET message == JSONparse(frame)
    IN  IF message.thrown THEN [st EXCEPT !.raised = TRUE]
        ELSE handleMessage(st, message)

\* onmessage(event): what JSON.parse or handleMessage throws is caught and
\* logged.
onmessage(st, frame) ==
    LET message == JSONparse(frame)
    IN  IF message.thrown THEN st
        ELSE [handleMessage(st, message) EXCEPT !.raised = FALSE]

\* ------------------------------------------------------------------ actions

TypeOK ==
    /\ socket \in {"null", "CONNECTING", "OPEN", "CLOSING", "CLOSED"}
    /\ BagToSet(orphans) \subseteq OrphanKinds
    /\ reconnectAttempts \in 0..maxReconnectAttempts
    /\ reconnectTimeout \in {"null", "live", "fired"}
    /\ pendingTimeouts \in 0..1
    /\ liveIntervals \in 0..1
    /\ pc \in {"ready", "draining"}
    /\ retryRun \in -1..maxReconnectAttempts
    /\ isConnectedFlag \in [Hooks -> BOOLEAN]
    /\ rendered \subseteq Hooks
    /\ mounted \subseteq Hooks
    /\ rendered \cap mounted = {}

Init ==
    /\ socket = "null"
    /\ orphans = EmptyBag
    /\ listeners = [e \in Events |-> <<>>]
    /\ reconnectAttempts = 0
    /\ reconnectTimeout = "null"
    /\ pendingTimeouts = 0
    /\ pingInterval = FALSE
    /\ liveIntervals = 0
    /\ messageQueue = <<>>
    /\ isConnectedFlag = [h \in Hooks |-> FALSE]
    /\ lastMessage = [h \in Hooks |-> <<>>]
    /\ listenersRef = [h \in Hooks |-> <<>>]
    /\ rendered = {}
    /\ mounted = {}
    /\ nextMsg = 1
    /\ pc = "ready"
    /\ delay = 0
    /\ emitted = <<>>
    /\ delivered = <<>>
    /\ steps = <<>>
    /\ written = <<>>
    /\ raised = FALSE
    /\ scheduled = FALSE
    /\ created = FALSE
    /\ target = "none"
    /\ endpoint = "none"
    /\ drainFrom = <<>>
    /\ lastOp = Op("new", "", "none", FALSE)
    /\ sinceDisconnect = FALSE
    /\ retryRun = -1

\* The application calls wsService.connect(url).  The transport that the
\* preceding disconnect() closed is marked superseded.
Connect(url) ==
    /\ pc = "ready"
    /\ Busy(Cur) < MaxSockets
    /\ LET st == connect(Begin, url)
           mark == /\ st.created
                   /\ lastOp.name = "disconnect"
                   /\ lastOp.sock = "current"
       IN  /\ Commit(IF mark
                     THEN [st EXCEPT !.orphans =
                              (@ (-) One(Orphan("CLOSING", FALSE)))
                                  (+) One(Orphan("CLOSING", TRUE))]
                     ELSE st)
           /\ retryRun' = IF ~st.created THEN retryRun
                          ELSE IF /\ reconnectAttempts = 0
                                  /\ pendingTimeouts = 0
                                  /\ Busy(Cur) = 0
                               THEN 0 ELSE -1
           /\ endpoint' = IF st.created THEN st.target ELSE endpoint
    /\ lastOp' = Op("connect", url, "current", FALSE)
    /\ sinceDisconnect' = FALSE
    /\ UNCHANGED <<rendered, mounted>>

\* The application calls wsService.disconnect().
Disconnect ==
    /\ pc = "ready"
    /\ Commit(disconnect(Begin))
    /\ lastOp' = Op("disconnect", "",
                    IF socket \in {"CONNECTING", "OPEN", "CLOSING"}
                    THEN "current"
                    ELSE "none", FALSE)
    /\ sinceDisconnect' = TRUE
    /\ retryRun' = -1
    /\ UNCHANGED <<endpoint, rendered, mounted>>

\* The application calls wsService.send(event, data).
Send(ok) ==
    /\ pc = "ready"
    /\ nextMsg <= MaxMsgs
    /\ Commit(send([Begin EXCEPT !.nextMsg = @ + 1],
                   [id |-> nextMsg, ok |-> ok]))
    /\ lastOp' = Op("send", IF ok THEN "ok" ELSE "unserializable", "current",
                    FALSE)
    /\ UNCHANGED <<sinceDisconnect, retryRun, endpoint, rendered, mounted>>

\* The transport of this.socket signals that the connection is established.
TransportOpen ==
    /\ pc = "ready"
    /\ socket = "CONNECTING"
    /\ Commit(onopen([Begin EXCEPT !.socket = "OPEN"]))
    /\ lastOp' = Op("open", "", "current", FALSE)
    /\ retryRun' = -1
    /\ UNCHANGED <<sinceDisconnect, endpoint, rendered, mounted>>

\* An orphan signals that the connection is established.
OrphanOpen ==
    /\ pc = "ready"
    /\ BagIn(Orphan("CONNECTING", FALSE), orphans)
    /\ Commit(onopen([Begin EXCEPT !.orphans =
                         (@ (-) One(Orphan("CONNECTING", FALSE)))
                             (+) One(Orphan("OPEN", FALSE))]))
    /\ lastOp' = Op("open", "", "orphan", FALSE)
    /\ retryRun' = -1
    /\ UNCHANGED <<sinceDisconnect, endpoint, rendered, mounted>>

\* The closing handshake of the open transport of this.socket starts (the
\* server sends a close frame): its readyState becomes CLOSING and no handler
\* of the service runs.
TransportClosing ==
    /\ pc = "ready"
    /\ socket = "OPEN"
    /\ Commit([Begin EXCEPT !.socket = "CLOSING"])
    /\ lastOp' = Op("closing", "", "current", FALSE)
    /\ UNCHANGED <<sinceDisconnect, retryRun, endpoint, rendered, mounted>>

\* The closing handshake of an open orphan starts.
OrphanClosing ==
    /\ pc = "ready"
    /\ BagIn(Orphan("OPEN", FALSE), orphans)
    /\ Commit([Begin EXCEPT !.orphans =
                  (@ (-) One(Orphan("OPEN", FALSE)))
                      (+) One(Orphan("CLOSING", FALSE))])
    /\ lastOp' = Op("closing", "", "orphan", FALSE)
    /\ UNCHANGED <<sinceDisconnect, retryRun, endpoint, rendered, mounted>>

\* The transport of this.socket signals closure, after an error event when
\* the connection failed.
TransportClose(failed) ==
    /\ pc = "ready"
    /\ socket \in {"CONNECTING", "OPEN", "CLOSING"}
    /\ LET st == [Begin EXCEPT !.socket = "CLOSED"]
       IN  Commit(onclose(IF failed THEN onerror(st) ELSE st))
    /\ lastOp' = Op("close", IF failed THEN "error" ELSE "clean", "current",
                    FALSE)
    /\ UNCHANGED <<sinceDisconnect, retryRun, endpoint, rendered, mounted>>

\* The orphan o signals closure, after an error event when the connection
\* failed.
OrphanClose(o, failed) ==
    /\ pc = "ready"
    /\ BagIn(o, orphans)
    /\ LET st == [Begin EXCEPT !.orphans = @ (-) One(o)]
       IN  Commit(onclose(IF failed THEN onerror(st) ELSE st))
    /\ lastOp' = Op("close", IF failed THEN "error" ELSE "clean", "orphan",
                    o.superseded)
    /\ UNCHANGED <<sinceDisconnect, retryRun, endpoint, rendered, mounted>>

\* A reconnect timer fires: () => this.connect()
ReconnectTimer ==
    /\ pc = "ready"
    /\ pendingTimeouts > 0
    /\ Busy(Cur) < MaxSockets
    /\ LET st == connect([Begin EXCEPT
                            !.pendingTimeouts = @ - 1,
                            !.delay = 0,
                            !.reconnectTimeout =
                                IF @ = "live" /\ pendingTimeouts = 1
                                THEN "fired" ELSE @],
                         "undefined")
       IN  /\ Commit(st)
           /\ retryRun' = IF retryRun >= 0 /\ st.created
                          THEN retryRun + 1 ELSE retryRun
    /\ lastOp' = Op("timer", "", "current", FALSE)
    /\ UNCHANGED <<sinceDisconnect, endpoint, rendered, mounted>>

\* A heartbeat interval ticks.
PingTick ==
    /\ pc = "ready"
    /\ liveIntervals > 0
    /\ Commit(pingTick(Begin))
    /\ lastOp' = Op("ping", "", "current", FALSE)
    /\ UNCHANGED <<sinceDisconnect, retryRun, endpoint, rendered, mounted>>

Registrations(ls) ==
    Cardinality(UNION {{<<e, i>> : i \in 1..Len(ls[e])} : e \in Events})

On(event, cb) ==
    /\ pc = "ready"
    /\ Registrations(listeners) < MaxListeners
    /\ Commit(on(Begin, event, cb))
    /\ lastOp' = Op("on", <<event, cb>>, "none", FALSE)
    /\ UNCHANGED <<sinceDisconnect, retryRun, endpoint, rendered, mounted>>

Off(event, cb) ==
    /\ pc = "ready"
    /\ Commit(off(Begin, event, cb))
    /\ lastOp' = Op("off", <<event, cb>>, "none", FALSE)
    /\ UNCHANGED <<sinceDisconnect, retryRun, endpoint, rendered, mounted>>

\* The application invokes the function that on(event, cb) returned.
Unsubscribe(event, cb) ==
    /\ pc = "ready"
    /\ Commit(unsubscribe(Begin, event, cb))
    /\ lastOp' = Op("unsubscribe", <<event, cb>>, "none", FALSE)
    /\ UNCHANGED <<sinceDisconnect, retryRun, endpoint, rendered, mounted>>

\* The transport of this.socket delivers a frame.
TransportMessage(frame) ==
    /\ pc = "ready"
    /\ socket = "OPEN"
    /\ Commit(onmessage(Begin, frame))
    /\ lastOp' = Op("message", frame, "current", FALSE)
    /\ UNCHANGED <<sinceDisconnect, retryRun, endpoint, rendered, mounted>>

\* An open orphan delivers a frame: its onmessage handler is the closure
\* over the service that the current transport has.
OrphanMessage(frame) ==
    /\ pc = "ready"
    /\ BagIn(Orphan("OPEN", FALSE), orphans)
    /\ Commit(onmessage(Begin, frame))
    /\ lastOp' = Op("message", frame, "orphan", FALSE)
    /\ UNCHANGED <<sinceDisconnect, retryRun, endpoint, rendered, mounted>>

\* React renders the component h for the first time: the body of the hook
\* runs (useState(false), useState(null), useRef([])) and registers the
\* effect, which runs in a later step.
Render(h) ==
    /\ pc = "ready"
    /\ h \notin rendered \cup mounted
    /\ Commit([Begin EXCEPT !.isConnectedFlag[h] = FALSE,
                            !.lastMessage[h] = <<>>,
                            !.listenersRef[h] = <<>>])
    /\ rendered' = rendered \cup {h}
    /\ lastOp' = Op("render", h, "none", FALSE)
    /\ UNCHANGED <<sinceDisconnect, retryRun, endpoint, mounted>>

\* The effect of the hook of the rendered component h runs.
Effect(h) ==
    /\ pc = "ready"
    /\ h \in rendered
    /\ Busy(Cur) < MaxSockets
    /\ LET st == useEffect(Begin, h)
       IN  /\ Commit(st)
           /\ endpoint' = IF st.created THEN st.target ELSE endpoint
    /\ rendered' = rendered \ {h}
    /\ mounted' = mounted \cup {h}
    /\ lastOp' = Op("effect", h, "current", FALSE)
    /\ sinceDisconnect' = FALSE
    /\ retryRun' = -1

\* The mounted component h calls the subscribe function its hook returned;
\* every call makes a new closure, and one closure per (h, callback) is
\* registered at a time.
Subscribe(h, event, cb) ==
    /\ pc = "ready"
    /\ h \in mounted
    /\ \A e \in Events : ~Member(listeners[e], wrapper(h, cb))
    /\ Commit(subscribe(Begin, h, event, cb))
    /\ lastOp' = Op("subscribe", <<h, event, cb>>, "none", FALSE)
    /\ UNCHANGED <<sinceDisconnect, retryRun, endpoint, rendered, mounted>>

\* The component h unmounts: the cleanup of the effect.
Unmount(h) ==
    /\ pc = "ready"
    /\ h \in mounted
    /\ Commit(cleanup(Begin, h))
    /\ mounted' = mounted \ {h}
    /\ lastOp' = Op("unmount", h,
                    IF socket \in {"CONNECTING", "OPEN", "CLOSING"}
                    THEN "current"
                    ELSE "none", FALSE)
    /\ sinceDisconnect' = TRUE
    /\ retryRun' = -1
    /\ UNCHANGED <<endpoint, rendered>>

\* Subscribers are registered on 'connected' with a callback that sends:
\* the registration whose callback runs inside the open handler.
Next ==
    \/ \E url \in UrlArgs : Connect(url)
    \/ Disconnect
    \/ \E ok \in BOOLEAN : Send(ok)
    \/ TransportOpen
    \/ OrphanOpen
    \/ TransportClosing
    \/ OrphanClosing
    \/ \E failed \in BOOLEAN : TransportClose(failed)
    \/ \E o \in OrphanKinds, failed \in BOOLEAN : OrphanClose(o, failed)
    \/ ReconnectTimer
    \/ PingTick
    \/ \E e \in {"connected"}, cb \in {"cbSend"} : On(e, cb)
    \/ \E e \in Events, cb \in Callbacks :
           Member(listeners[e], cb) /\ Off(e, cb)

Spec == Init /\ [][Next]_vars

\* Emission and dispatch: callbacks that throw or return are registered on
\* every event name and removed again, over connections that the application
\* opens (when no attempt is under way) and closes itself and whose current
\* transport delivers frames.
DispatchNext ==
    \/ socket \notin {"CONNECTING", "OPEN"} /\ Connect("undefined")
    \/ Disconnect
    \/ TransportOpen
    \/ TransportClosing
    \/ \E failed \in BOOLEAN : TransportClose(failed)
    \/ \E o \in OrphanKinds, failed \in BOOLEAN : OrphanClose(o, failed)
    \/ \E frame \in Frames : TransportMessage(frame)
    \/ \E e \in Events \ {"connected"}, cb \in {"cbThrow", "cbPlain"} :
           On(e, cb)
    \/ \E e \in Events, cb \in Callbacks :
           Member(listeners[e], cb) /\ Off(e, cb)

DispatchSpec == Init /\ [][DispatchNext]_vars

\* Connections to the default address and to an address the caller gives,
\* with their failures and automatic reconnects.
EndpointNext ==
    \/ \E url \in {"undefined", "custom"} : Connect(url)
    \/ Disconnect
    \/ TransportOpen
    \/ TransportClosing
    \/ \E failed \in BOOLEAN : TransportClose(failed)
    \/ \E o \in OrphanKinds, failed \in BOOLEAN : OrphanClose(o, failed)
    \/ ReconnectTimer

EndpointSpec == Init /\ [][EndpointNext]_vars

\* The two components that use the hook mount and unmount, over the
\* connection they share: its transports open, close and deliver frames of
\* the types the hooks listen to, messages are sent, reconnect timers fire.
HookNext ==
    \/ \E h \in Hooks : Render(h)
    \/ \E h \in Hooks : Effect(h)
    \/ \E h \in Hooks : Unmount(h)
    \/ Subscribe("ChatInterface", "unknown", "cbPlain")
    \/ Send(TRUE)
    \/ TransportOpen
    \/ OrphanOpen
    \/ TransportClosing
    \/ OrphanClosing
    \/ \E failed \in BOOLEAN : TransportClose(failed)
    \/ \E o \in OrphanKinds, failed \in BOOLEAN : OrphanClose(o, failed)
    \/ \E type \in {"connected", "disconnected", "unknown"} :
           TransportMessage(<<"object", type, "d1">>)
    \/ \E type \in {"connected", "disconnected", "unknown"} :
           OrphanMessage(<<"object", type, "d1">>)
    \/ ReconnectTimer

HookSpec == Init /\ [][HookNext]_vars

\* The subscriber registry alone: every callback is registered and removed
\* in the three ways there are, also when it is not or no longer registered.
RegistryNext ==
    \/ \E e \in Events, cb \in Callbacks : On(e, cb)
    \/ \E e \in Events, cb \in Callbacks \cup {"undefined"} : Off(e, cb)
    \/ \E e \in Events, cb \in Callbacks : Unsubscribe(e, cb)

RegistrySpec == Init /\ [][RegistryNext]_vars

\* ------------------------------------------------------------------- claims

Ids(seq) == [i \in 1..Len(seq) |-> seq[i].id]

Elems(seq) == {seq[i] : i \in 1..Len(seq)}

Increasing(ids) == \A i \in 1..Len(ids), j \in 1..Len(ids) :
                      i < j => ids[i] < ids[j]

Count(seq, x) == Cardinality({i \in 1..Len(seq) : seq[i] = x})

\* C1: when a connection has opened, the messages that were queued while
\* the manager was not Open have been written to the current transport in
\* the order their sends were issued, each exactly once, and none is left in
\* the queue.
C1_QueuedWrittenInIssueOrder ==
    lastOp.name = "open" =>
        /\ Increasing(Ids(drainFrom))
        /\ SelectSeq(written, LAMBDA id : id \in Elems(Ids(drainFrom)))
               = Ids(drainFrom)
        /\ drainFrom # <<>> => isConnected(Cur)
        /\ messageQueue = <<>>

\* C2: at most one transport created by the manager is live (connecting or
\* open) in every reachable state.
C2_OneLiveTransport == Live(Cur) <= 1

\* C3: when the transport closed by a disconnect() that was immediately
\* followed by connect() signals its closure, exactly one 'disconnected'
\* event is emitted, no reconnect is scheduled, and at most one transport is
\* live.
C3_NoReconnectForExplicitClose ==
    (lastOp.name = "close" /\ lastOp.superseded) =>
        /\ ~scheduled
        /\ Count(emitted, "disconnected") = 1
        /\ Live(Cur) <= 1

\* C4: after disconnect(), as long as connect() is not called explicitly, no
\* reconnect is scheduled or pending and no timer creates a transport.
C4_NoTransportAfterDisconnect ==
    sinceDisconnect =>
        /\ ~scheduled
        /\ pendingTimeouts = 0
        /\ ~(lastOp.name = "timer" /\ created)

C6_ConnectResetsAttempts ==
    (lastOp.name = "connect" /\ created) =>
        reconnectAttempts < maxReconnectAttempts

Delays == <<1000, 2000, 4000, 8000, 16000>>

\* C7: the k-th reconnect scheduled since the last open has the delay
\* 1000, 2000, 4000, 8000, 16000 for k = 1..5; the delay is at most 16 times
\* the base delay and not below the delay of the failure before.
C7_BackoffDelays ==
    scheduled =>
        /\ reconnectAttempts \in 1..maxReconnectAttempts
        /\ delay = Delays[reconnectAttempts]
        /\ delay <= 16 * reconnectDelay
        /\ reconnectAttempts > 1 => delay >= Delays[reconnectAttempts - 1]

C7_Witness ==
    /\ scheduled
    /\ reconnectAttempts = maxReconnectAttempts
    /\ delay = 16 * reconnectDelay

\* C8: connect() called while the current transport is Open creates no
\* transport, emits no event and leaves the counter, the queue, the timers
\* and the subscriber registry as they were.
C8_ConnectWhileOpenIsNoOp ==
    [][(lastOp'.name = "connect" /\ isConnected(Cur)) =>
          /\ ~created'
          /\ emitted' = <<>>
          /\ delivered' = <<>>
          /\ UNCHANGED <<socket, orphans, reconnectAttempts, messageQueue,
                         reconnectTimeout, pendingTimeouts, delay,
                         pingInterval, liveIntervals, listeners>>]_vars

C8_Witness ==
    /\ lastOp.name = "connect"
    /\ lastOp.arg = "undefined"
    /\ isConnected(Cur)
    /\ pingInterval

\* C9: send() never throws; it writes one frame and leaves the queue alone
\* when the current transport is Open and the write succeeds, and otherwise
\* appends one entry at the tail of the queue and writes nothing.
C9_SendWritesOrQueues ==
    [][lastOp'.name = "send" =>
          LET msg == [id |-> nextMsg, ok |-> lastOp'.arg = "ok"]
          IN  /\ ~raised'
              /\ IF isConnected(Cur) /\ msg.ok
                 THEN /\ written' = <<msg.id>>
                      /\ messageQueue' = messageQueue
                 ELSE /\ written' = <<>>
                      /\ messageQueue' = Append(messageQueue, msg)
              /\ emitted' = <<>>
              /\ UNCHANGED <<socket, orphans, reconnectAttempts,
                             reconnectTimeout,
                             pendingTimeouts, pingInterval, liveIntervals,
                             listeners, pc>>]_vars

C9_Witness ==
    /\ lastOp.name = "send"
    /\ lastOp.arg = "unserializable"
    /\ isConnected(Cur)
    /\ written = <<>>
    /\ Len(messageQueue) >= 1

\* C10: every frame an open handler writes is written in the order the
\* sends were issued: the messages queued before the open come before a send
\* made after the 'connected' event fired, also from a 'connected' callback.
C10_QueuedBeforeLaterSends ==
    lastOp.name = "open" => Increasing(written)

\* C11: the handler of a transport's open event resets the attempt counter,
\* then emits 'connected' once, then drains the queue first-in first-out,
\* then starts the heartbeat; when it has finished the counter is 0, one
\* heartbeat timer is running and what it found queued has been written in
\* queue order.
C11_OpenHandlerOrder ==
    lastOp.name = "open" =>
        /\ emitted = <<"connected">>
        /\ reconnectAttempts = 0
        /\ pc = "ready" =>
              /\ steps = <<"reset", "emit", "drain", "startPingInterval">>
              /\ pingInterval
              /\ liveIntervals = 1
              /\ SelectSeq(written, LAMBDA id : id \in Elems(Ids(drainFrom)))
                     = Ids(drainFrom)

C11_Witness ==
    /\ lastOp.name = "open"
    /\ pc = "ready"
    /\ Len(drainFrom) >= 2
    /\ delivered # <<>>
    /\ steps = <<"reset", "emit", "drain", "startPingInterval">>

\* What an emission of event with data delivers: one invocation of every
\* callback registered on the event, in insertion order.
Deliveries(event, data) ==
    [i \in 1..Len(listeners[event]) |-> <<event, listeners[event][i], data>>]

Of(seq, event) == SelectSeq(seq, LAMBDA d : d[1] = event)

\* C12: when the current transport closes while the manager is Open, or
\* after the closing handshake of the open transport has started, exactly
\* one 'disconnected' event is emitted, every callback registered on it is
\* invoked once, and no heartbeat timer is left running; disconnect() called
\* while Open leaves no heartbeat timer running and hands the transport over
\* to its closure, and the closure of a transport that disconnect() closed
\* emits exactly one 'disconnected' event to the callbacks registered then.
C12_LeavingOpenEmitsDisconnectedOnce ==
    [][/\ (socket \in {"OPEN", "CLOSING"} /\ lastOp'.name = "close"
                                          /\ lastOp'.sock = "current") =>
              /\ Count(emitted', "disconnected") = 1
              /\ Of(delivered', "disconnected")
                     = Deliveries("disconnected", "info")
              /\ ~pingInterval'
              /\ liveIntervals' = 0
       /\ (isConnected(Cur) /\ lastOp'.name = "disconnect") =>
              /\ ~pingInterval'
              /\ liveIntervals' = 0
              /\ socket' = "null"
              /\ orphans' = orphans (+) One(Orphan("CLOSING", FALSE))
       /\ (lastOp'.name = "close" /\ lastOp'.sock = "orphan") =>
              /\ Count(emitted', "disconnected") = 1
              /\ Of(delivered', "disconnected")
                     = Deliveries("disconnected", "info")
              /\ ~pingInterval'
              /\ liveIntervals' = 0]_vars

C12_Witness ==
    /\ lastOp.name = "close"
    /\ lastOp.sock = "orphan"
    /\ Len(Of(delivered, "disconnected")) >= 2
    /\ socket = "null"
    /\ reconnectAttempts = maxReconnectAttempts

\* C13: when connect() fails to construct the transport (malformed
\* endpoint) the manager does not become Open and, the attempt counter being
\* below the maximum, a reconnect is scheduled as it is after a transport
\* close.
C13_ConstructionFailureSchedulesReconnect ==
    (lastOp.name = "connect" /\ lastOp.arg = "malformed" /\ ~isConnected(Cur)) =>
        /\ ~created
        /\ scheduled \/ reconnectAttempts = maxReconnectAttempts

\* C14: whatever a callback throws, an operation that emits event X invokes
\* every callback registered on X, in insertion order, and nothing is thrown
\* out of the operation; this holds for every emission, so also for those
\* that follow one in which a callback threw.
C14_ThrowingSubscriberIsolated ==
    /\ ~raised
    /\ \A e \in Events :
          /\ Count(emitted, e) <= 1
          /\ Len(Of(delivered, e)) = Count(emitted, e) * Len(listeners[e])
          /\ Count(emitted, e) = 1 =>
                [i \in 1..Len(listeners[e]) |-> Of(delivered, e)[i][2]]
                    = listeners[e]

C14_Witness ==
    /\ lastOp.name = "message"
    /\ listeners["unknown"] = <<"cbThrow", "cbPlain">>
    /\ delivered = <<<<"unknown", "cbThrow", "d2">>,
                     <<"unknown", "cbPlain", "d2">>>>

\* C15: an inbound frame that is the JSON text of an object with type T and
\* data D invokes no callback when T is 'pong', also when callbacks are
\* registered on 'pong'; otherwise it invokes every callback registered on
\* T, listed in the switch of handleMessage or not, once with D, and no
\* callback registered on another name.
C15_FrameDispatchedByType ==
    (lastOp.name = "message" /\ lastOp.arg[1] = "object") =>
        LET T == lastOp.arg[2]
            D == lastOp.arg[3]
        IN  /\ ~raised
            /\ delivered = IF T \in Events \ {"pong"} THEN Deliveries(T, D)
                           ELSE <<>>
            /\ emitted = IF T = "pong" THEN <<>> ELSE <<T>>

C15_Witness ==
    /\ lastOp.name = "message"
    /\ lastOp.arg = <<"object", "pong", "d1">>
    /\ listeners["pong"] # <<>>
    /\ listeners["error"] # <<>>
    /\ delivered = <<>>

\* C16: an inbound frame that is not JSON is dropped: no callback is invoked,
\* nothing is thrown out of the message handler, and the transports, the
\* attempt counter, the queue, the timers and the registry are as before.
C16_MalformedFrameDropped ==
    [][(lastOp'.name = "message" /\ lastOp'.arg[1] = "garbage") =>
          /\ ~raised'
          /\ delivered' = <<>>
          /\ emitted' = <<>>
          /\ written' = <<>>
          /\ UNCHANGED <<socket, orphans, reconnectAttempts, messageQueue,
                         reconnectTimeout, pendingTimeouts, delay,
                         pingInterval, liveIntervals, listeners, pc>>]_vars

C16_Witness ==
    /\ lastOp.name = "message"
    /\ lastOp.arg[1] = "garbage"
    /\ isConnected(Cur)
    /\ pingInterval
    /\ Registrations(listeners) >= 2

\* C17: a heartbeat tick writes a 'ping' frame exactly when the current
\* transport is Open and writes nothing otherwise; no other operation writes
\* a 'ping' frame and none is ever queued, so that after the manager has
\* left Open no ping is written until it is Open again.
C17_PingOnlyWhileOpen ==
    /\ lastOp.name = "ping" =>
          written = IF isConnected(Cur) THEN <<0>> ELSE <<>>
    /\ lastOp.name # "ping" => 0 \notin Elems(written)
    /\ 0 \notin Elems(Ids(messageQueue))

C17_Witness ==
    /\ lastOp.name = "ping"
    /\ ~isConnected(Cur)
    /\ liveIntervals = 1
    /\ written = <<>>

\* The manager holds no transport and nothing is pending or running.
Idle ==
    /\ socket = "null"
    /\ Busy(Cur) = 0
    /\ pendingTimeouts = 0
    /\ liveIntervals = 0

\* C18: disconnect() called on an Idle manager throws nothing and leaves
\* the attempt counter, the queue, the timers and the registry as they were.
C18_DisconnectOnIdleIsNoOp ==
    [][(Idle /\ lastOp'.name = "disconnect") =>
          /\ ~raised'
          /\ UNCHANGED <<socket, orphans, reconnectAttempts, messageQueue,
                         reconnectTimeout, pendingTimeouts, pingInterval,
                         liveIntervals, listeners>>]_vars

\* C19: when disconnect() returns, from any state, the queue is empty, no
\* reconnect timer is pending, no heartbeat timer is running, this.socket is
\* null and the attempt counter equals the maximum.  The messages queued
\* before are never written afterwards: every operation writes only pings,
\* messages that are in the queue when it starts and messages sent during
\* it, and disconnect() left none in the queue.
C19_DisconnectReleasesEverything ==
    [][/\ lastOp'.name = "disconnect" =>
              /\ ~raised'
              /\ messageQueue' = <<>>
              /\ pendingTimeouts' = 0
              /\ reconnectTimeout' = "null"
              /\ liveIntervals' = 0
              /\ ~pingInterval'
              /\ socket' = "null"
              /\ reconnectAttempts' = maxReconnectAttempts
              /\ written' = <<>>
       /\ \A id \in Elems(written') :
              \/ id = 0
              \/ id \in Elems(Ids(messageQueue))
              \/ id >= nextMsg]_vars

C19_Witness ==
    /\ lastOp.name = "disconnect"
    /\ lastOp.sock = "current"
    /\ nextMsg > MaxMsgs
    /\ messageQueue = <<>>
    /\ BagIn(Orphan("CLOSING", FALSE), orphans)

\* C20: the function returned by on(E, cb) and off(E, cb) remove cb, and
\* nothing else, from the callbacks of E; off(E) removes every callback of
\* E; in the three cases the callbacks of the other event names stay as they
\* are, nothing is thrown, and doing the same removal again changes nothing.
C20_RemovalRemovesOnlyItsTarget ==
    [][lastOp'.name \in {"off", "unsubscribe"} =>
          LET E == lastOp'.arg[1]
              cb == lastOp'.arg[2]
          IN  /\ listeners'[E] = IF cb = "undefined" THEN <<>>
                                 ELSE SelectSeq(listeners[E],
                                                LAMBDA c : c # cb)
              /\ \A e \in Events \ {E} : listeners'[e] = listeners[e]
              /\ ~raised'
              /\ (IF lastOp'.name = "off"
                  THEN off([Begin EXCEPT !.listeners = listeners'], E, cb)
                  ELSE unsubscribe([Begin EXCEPT !.listeners = listeners'],
                                   E, cb)).listeners = listeners']_vars

C20_Witness ==
    /\ lastOp.name = "off"
    /\ lastOp.arg = <<"error", "cbThrow">>
    /\ listeners["error"] = <<"cbPlain">>
    /\ listeners["pong"] = <<"cbThrow">>

\* C21: the open event of a transport that connect() replaced while its
\* attempt was pending changes nothing in the manager and emits nothing: no
\* event, no callback, no frame, none of the steps of the open handler.
C21_ReplacedTransportIsInert ==
    (lastOp.name = "open" /\ lastOp.sock = "orphan") =>
        /\ emitted = <<>>
        /\ delivered = <<>>
        /\ written = <<>>
        /\ steps = <<>>

\* C22: a message whose write fails while the queue is drained is queued
\* again, not dropped: in every state an open handler leaves, every message
\* it found queued has been written exactly once and is not queued, or has
\* not been written and is queued exactly once; when the handler has
\* returned, the messages still queued are in the order of their sends.
C22_DrainKeepsEveryMessage ==
    lastOp.name = "open" =>
        /\ \A id \in Elems(Ids(drainFrom)) :
              Count(written, id) + Count(Ids(messageQueue), id) = 1
        /\ pc = "ready" => Increasing(Ids(messageQueue))

C22_Witness ==
    /\ lastOp.name = "open"
    /\ isConnected(Cur)
    /\ Len(drainFrom) >= 2
    /\ \E i \in 1..Len(messageQueue) :
          /\ ~messageQueue[i].ok
          /\ messageQueue[i] \in Elems(drainFrom)
    /\ Len(written) >= 1

\* C23: whenever a heartbeat timer is running, the current transport is Open.
C23_HeartbeatOnlyWhileOpen ==
    liveIntervals > 0 => isConnected(Cur)

\* C24: at most one heartbeat timer is running, and it is the one
\* this.pingInterval names; this holds also after an open event that arrives
\* while a heartbeat is running.
C24_OneHeartbeatTimer ==
    /\ liveIntervals <= 1
    /\ pingInterval <=> liveIntervals = 1

C24_Witness ==
    /\ lastOp.name = "open"
    /\ lastOp.sock = "orphan"
    /\ isConnected(Cur)
    /\ pc = "ready"
    /\ liveIntervals = 1

\* C25: at most one reconnect timer is pending, and it is the one
\* this.reconnectTimeout names; this holds also after a closure that
\* schedules a reconnect while the timer of an earlier closure is pending.
C25_OneReconnectTimer ==
    /\ pendingTimeouts <= 1
    /\ pendingTimeouts = 1 <=> reconnectTimeout = "live"

C25_Witness ==
    /\ lastOp.name = "close"
    /\ lastOp.sock = "orphan"
    /\ ~lastOp.superseded
    /\ scheduled
    /\ socket = "CLOSED"
    /\ reconnectAttempts = 2
    /\ Busy(Cur) = 0
    /\ pendingTimeouts = 1

\* C26: the open handler always returns: no reachable state is inside a
\* drain loop that never ends.
C26_OpenHandlerTerminates == pc = "ready"

\* C27: whenever the current transport is Open and its open handler has
\* returned, a heartbeat timer is running; no close event of an earlier
\* transport stops it.
C27_HeartbeatWhileOpen ==
    (isConnected(Cur) /\ pc = "ready") => liveIntervals = 1

\* C28: a transport that the reconnect timer constructs has the address of
\* the transport that the last explicit connect() constructed.
C28_ReconnectKeepsEndpoint ==
    (lastOp.name = "timer" /\ created) => target = endpoint

\* C29: when a component unmounts while another component that uses the
\* hook stays mounted, the transports, the queue, the attempt counter and
\* the timers of the shared connection are as before.
C29_UnmountKeepsSharedConnection ==
    [][(lastOp'.name = "unmount" /\ mounted' # {}) =>
          UNCHANGED <<socket, orphans, messageQueue, reconnectAttempts,
                      reconnectTimeout, pendingTimeouts, pingInterval,
                      liveIntervals>>]_vars

\* No transport has an open or close event to deliver and no reconnect
\* timer is pending.
Quiet ==
    /\ pc = "ready"
    /\ socket \notin {"CONNECTING", "CLOSING"}
    /\ orphans = EmptyBag
    /\ pendingTimeouts = 0

\* C30: when no event is pending, the isConnected state of every mounted
\* hook instance equals wsService.isConnected().
C30_HookFlagMatchesService ==
    Quiet => \A h \in mounted : isConnectedFlag[h] = isConnected(Cur)
====
